---- MODULE Spec2Model ----
(***************************************************************************)
(* A model of noaa-tides: the typed client of the NOAA CO-OPS data         *)
(* endpoint.  Three parts:                                                 *)
(*   - the parameter model and the request encoder (parameters.rs,         *)
(*     products/predictions.rs), checked under SpecEnc;                    *)
(*   - the field decoders and the untagged response envelope               *)
(*     (products/mod.rs, products/predictions.rs, lib.rs), checked for a   *)
(*     single fetch over a rich set of bodies under SpecDecode;            *)
(*   - NoaaTideClient::fetch as a state machine of concurrent calls on     *)
(*     one shared client (lib.rs), checked under Spec.                     *)
(* Text the code inspects character by character (date tokens, "t" and     *)
(* "v" values) is a sequence of one-character strings; wire tokens and     *)
(* member names are strings.                                               *)
(***************************************************************************)
EXTENDS Integers, Sequences, FiniteSets, TLC

VARIABLES
    client,     \* the shared NoaaTideClient: [base_url, http]
    call,       \* call id -> the state of that invocation of fetch
    requests,   \* GETs on the wire, not yet answered: [conn, url, query]
    responses,  \* responses on the wire, not yet read: [conn, status, body]
    served,     \* history: call id -> the body the server answered it with
    encReq,     \* the request value handed to the encoder
    encOut,     \* the query pairs the RequestBuilder has accumulated
    encPc       \* the encoder's position in the builder chain

vars == <<client, call, requests, responses, served, encReq, encOut, encPc>>
fetchVars == <<client, call, requests, responses, served>>
encVars == <<encReq, encOut, encPc>>

(***************************************************************************)
(* Bounds of the model.                                                    *)
(***************************************************************************)
\* concurrent invocations of fetch on the shared client
NCalls == 2
\* longest "predictions" array a body carries
MaxPredictions == 2
\* years taken on each side of 0, 1000 and 10000
YearMargin == 1

(***************************************************************************)
(* Text helpers.                                                           *)
(***************************************************************************)
DigitChars == <<"0", "1", "2", "3", "4", "5", "6", "7", "8", "9">>

IsDigit(ch) == \E i \in 1..10 : DigitChars[i] = ch

DigitVal(ch) == (CHOOSE i \in 1..10 : DigitChars[i] = ch) - 1

RECURSIVE Join(_)
Join(cs) == IF cs = <<>> THEN "" ELSE Head(cs) \o Join(Tail(cs))

RECURSIVE DecimalDigits(_)
\* the decimal digits of n >= 0, most significant first, as Display prints them
DecimalDigits(n) ==
    IF n < 10 THEN <<DigitChars[n + 1]>>
    ELSE DecimalDigits(n \div 10) \o <<DigitChars[(n % 10) + 1]>>

RECURSIVE ZeroPad(_, _)
\* cs left-padded with "0" to at least `width` characters
ZeroPad(cs, width) == IF Len(cs) >= width THEN cs ELSE ZeroPad(<<"0">> \o cs, width)

Abs(n) == IF n < 0 THEN 0 - n ELSE n

(***************************************************************************)
(* Parameter model (parameters.rs).  A variant is named as in the source;  *)
(* its wire token is what serde's derived Serialize writes for it.         *)
(***************************************************************************)
Datum == {"Datum::MHHW", "Datum::MHW", "Datum::MTL", "Datum::MSL", "Datum::MLW",
          "Datum::MLLW", "Datum::CRD", "Datum::IGLD", "Datum::LWD", "Datum::NAVD",
          "Datum::STND"}

Timezone == {"Timezone::GMT", "Timezone::LST", "Timezone::LST_LDT"}

Interval == {"Interval::Hourly", "Interval::HighLow", "Interval::OneMinute",
             "Interval::FiveMinutes", "Interval::SixMinutes", "Interval::TenMinutes",
             "Interval::FifteenMinutes", "Interval::ThirtyMinutes",
             "Interval::SixtyMinutes"}

Units == {"Units::Metric", "Units::English"}

\* no rename attribute: the token is the variant's identifier
DatumToken(d) ==
    CASE d = "Datum::MHHW" -> "MHHW"
      [] d = "Datum::MHW"  -> "MHW"
      [] d = "Datum::MTL"  -> "MTL"
      [] d = "Datum::MSL"  -> "MSL"
      [] d = "Datum::MLW"  -> "MLW"
      [] d = "Datum::MLLW" -> "MLLW"
      [] d = "Datum::CRD"  -> "CRD"
      [] d = "Datum::IGLD" -> "IGLD"
      [] d = "Datum::LWD"  -> "LWD"
      [] d = "Datum::NAVD" -> "NAVD"
      [] d = "Datum::STND" -> "STND"

\* rename_all = "lowercase": the identifier in lower case
TimezoneToken(z) ==
    CASE z = "Timezone::GMT"     -> "gmt"
      [] z = "Timezone::LST"     -> "lst"
      [] z = "Timezone::LST_LDT" -> "lst_ldt"

\* a bug that would send the sixty-minute interval as the hourly one
IntervalTokenSixtyAsHourly(i) ==
    CASE i = "Interval::Hourly"         -> "h"
      [] i = "Interval::HighLow"        -> "hilo"
      [] i = "Interval::OneMinute"      -> "1"
      [] i = "Interval::FiveMinutes"    -> "5"
      [] i = "Interval::SixMinutes"     -> "6"
      [] i = "Interval::TenMinutes"     -> "10"
      [] i = "Interval::FifteenMinutes" -> "15"
      [] i = "Interval::ThirtyMinutes"  -> "30"
      [] i = "Interval::SixtyMinutes"   -> "h"

\* each variant carries its own rename attribute
IntervalToken(i) ==
    CASE i = "Interval::Hourly"         -> "h"
      [] i = "Interval::HighLow"        -> "hilo"
      [] i = "Interval::OneMinute"      -> "1"
      [] i = "Interval::FiveMinutes"    -> "5"
      [] i = "Interval::SixMinutes"     -> "6"
      [] i = "Interval::TenMinutes"     -> "10"
      [] i = "Interval::FifteenMinutes" -> "15"
      [] i = "Interval::ThirtyMinutes"  -> "30"
      [] i = "Interval::SixtyMinutes"   -> "60"

\* rename_all = "lowercase"
UnitsToken(u) ==
    CASE u = "Units::Metric"  -> "metric"
      [] u = "Units::English" -> "english"

(***************************************************************************)
(* NaiveDate and the yyyymmdd serializer.  A NaiveDate is a valid date of  *)
(* the proleptic Gregorian calendar; chrono's "%Y" writes a year of        *)
(* 0..9999 as four zero-padded digits and any other year with an explicit  *)
(* sign before at least four digits; "%m" and "%d" write two digits.       *)
(***************************************************************************)
IsLeapYear(y) == (y % 4 = 0 /\ y % 100 # 0) \/ y % 400 = 0

DaysInMonth(y, m) ==
    IF m = 2 THEN (IF IsLeapYear(y) THEN 29 ELSE 28)
    ELSE IF m \in {4, 6, 9, 11} THEN 30 ELSE 31

NaiveDate(y, m, d) == [year |-> y, month |-> m, day |-> d]

FormatYear(y) ==
    IF 0 <= y /\ y <= 9999
    THEN ZeroPad(DecimalDigits(y), 4)
    ELSE <<IF y < 0 THEN "-" ELSE "+">> \o ZeroPad(DecimalDigits(Abs(y)), 4)

\* date.format("%Y%m%d").to_string()
Yyyymmdd(date) ==
    FormatYear(date.year) \o ZeroPad(DecimalDigits(date.month), 2)
                          \o ZeroPad(DecimalDigits(date.day), 2)

\* the fixed-width reading of an 8-digit YYYYMMDD token (the remote format)
ParseYyyymmdd(tok) ==
    IF Len(tok) = 8 /\ \A i \in 1..8 : IsDigit(tok[i])
    THEN [ok |-> TRUE,
          date |-> NaiveDate(
              1000 * DigitVal(tok[1]) + 100 * DigitVal(tok[2])
                  + 10 * DigitVal(tok[3]) + DigitVal(tok[4]),
              10 * DigitVal(tok[5]) + DigitVal(tok[6]),
              10 * DigitVal(tok[7]) + DigitVal(tok[8]))]
    ELSE [ok |-> FALSE, date |-> NaiveDate(0, 0, 0)]

(***************************************************************************)
(* Request encoder: serde's derived Serialize of the request structs, as   *)
(* the ordered key/value pairs serde_urlencoded receives.                  *)
(***************************************************************************)
Pair(k, v) == <<k, v>>

\* DateRange: begin_date, end_date, each through yyyymmdd::serialize
SerializeDateRange(dr) ==
    << Pair("begin_date", Join(Yyyymmdd(dr.begin_date))),
       Pair("end_date", Join(Yyyymmdd(dr.end_date))) >>

\* a bug that would keep the range nested (no flatten): one pair, no dates at
\* the top level
SerializePredictionsRequestNested(r) ==
    << Pair("station", r.station),
       Pair("datum", DatumToken(r.datum)),
       Pair("time_zone", TimezoneToken(r.time_zone)),
       Pair("interval", IntervalToken(r.interval)),
       Pair("units", UnitsToken(r.units)),
       Pair("date_range", Join(Yyyymmdd(r.date_range.begin_date))) >>

\* PredictionsRequest: the members in declaration order, date_range flattened
SerializePredictionsRequest(r) ==
    << Pair("station", r.station),
       Pair("datum", DatumToken(r.datum)),
       Pair("time_zone", TimezoneToken(r.time_zone)),
       Pair("interval", IntervalToken(r.interval)),
       Pair("units", UnitsToken(r.units)) >> \o SerializeDateRange(r.date_range)

\* the test's MockProductRequest: one member
SerializeMockProductRequest(r) == << Pair("station", r.station) >>

SerializeRequest(r) ==
    IF r.ty = "PredictionsRequest"
    THEN SerializePredictionsRequest(r)
    ELSE SerializeMockProductRequest(r)

\* impl NoaaTideProduct for PredictionsRequest: the product's name and the
\* response type it is answered with
PredictionsProductName == "predictions"
PredictionsResponseType == "PredictionsResponse"

\* impl NoaaTideProduct for MockProductRequest
MockProductName == "some_product"
MockResponseType == "MockProductResponse"

\* params.product_name()
ProductName(r) ==
    IF r.ty = "PredictionsRequest" THEN PredictionsProductName ELSE MockProductName

\* P::Response
ResponseType(r) ==
    IF r.ty = "PredictionsRequest" THEN PredictionsResponseType ELSE MockResponseType

\* .query(&[("product", params.product_name()), ("format", "json")])
FixedPairs(r) == << Pair("product", ProductName(r)), Pair("format", "json") >>

\* the whole query fetch builds: .query(&params) then the fixed pairs
FetchQuery(r) == SerializeRequest(r) \o FixedPairs(r)

PredictionsRequest(st, dr, d, z, i, u) ==
    [ty |-> "PredictionsRequest", station |-> st, date_range |-> dr,
     datum |-> d, time_zone |-> z, interval |-> i, units |-> u]

MockProductRequest(st) == [ty |-> "MockProductRequest", station |-> st]

DateRange(b, e) == [begin_date |-> b, end_date |-> e]

(***************************************************************************)
(* The request values the encoder is run on.                               *)
(***************************************************************************)
Years ==
    UNION {(b - YearMargin)..(b + YearMargin) : b \in {0, 1000, 10000}} \cup {2026}

\* NaiveDate::from_ymd_opt yields a date only for a day the month has
ValidDates ==
    {dt \in {NaiveDate(y, m, d) : y \in Years, m \in {1, 2, 12},
                                  d \in {1, 9, 10, 28, 29, 31}} :
        dt.day <= DaysInMonth(dt.year, dt.month)}

Jan01 == NaiveDate(2026, 1, 1)
Jan31 == NaiveDate(2026, 1, 31)

Stations == {"1234567", "9414290"}

\* every combination of the enumerations on the test's range, and every
\* sampled date as either end of a range
EncRequests ==
    {PredictionsRequest(st, DateRange(Jan01, Jan31), d, z, i, u) :
        st \in Stations, d \in Datum, z \in Timezone, i \in Interval, u \in Units}
    \cup {PredictionsRequest("1234567", DateRange(b, Jan31), "Datum::MLLW",
              "Timezone::LST_LDT", "Interval::HighLow", "Units::English") :
          b \in ValidDates}
    \cup {PredictionsRequest("1234567", DateRange(Jan01, e), "Datum::MLLW",
              "Timezone::GMT", "Interval::Hourly", "Units::Metric") :
          e \in ValidDates}
    \cup {MockProductRequest(st) : st \in Stations}

(***************************************************************************)
(* The shared client.                                                      *)
(***************************************************************************)
BASE_URL == "https://api.tidesandcurrents.noaa.gov/api/prod/datagetter"

\* NoaaTideClient::new
NewClient == [http |-> "Client", base_url |-> BASE_URL]

(***************************************************************************)
(* SpecEnc: the RequestBuilder chain of fetch, run on one request value.   *)
(***************************************************************************)
EncInit ==
    /\ encReq \in EncRequests
    /\ encOut = <<>>
    /\ encPc = "builder"
    /\ client = NewClient
    /\ call = <<>>
    /\ requests = {}
    /\ responses = {}
    /\ served = <<>>

\* .query(&params)
QueryParams ==
    /\ encPc = "builder"
    /\ encOut' = encOut \o SerializeRequest(encReq)
    /\ encPc' = "params"
    /\ UNCHANGED <<encReq, fetchVars>>

\* .query(&[("product", ...), ("format", "json")])
QueryFixed ==
    /\ encPc = "params"
    /\ encOut' = encOut \o FixedPairs(encReq)
    /\ encPc' = "built"
    /\ UNCHANGED <<encReq, fetchVars>>

EncNext == QueryParams \/ QueryFixed

SpecEnc == EncInit /\ [][EncNext]_vars

(***************************************************************************)
(* Claims on the encoder, checked under SpecEnc.                           *)
(***************************************************************************)
IsPredictionsRequest(r) == r.ty = "PredictionsRequest"

Keys(pairs) == [i \in 1..Len(pairs) |-> pairs[i][1]]

TestRequest ==
    PredictionsRequest("1234567", DateRange(Jan01, Jan31), "Datum::MLLW",
                       "Timezone::LST_LDT", "Interval::HighLow", "Units::English")

\* C4: for every PredictionsRequest the pairs the builder holds are, in this
\* order, station, datum, time_zone, interval, units, begin_date, end_date (the
\* range flattened, the values the canonical tokens), and the finished query
\* is these seven followed by product=<product_name()> and format=json; the
\* builder always reaches the finished query.
C4_QueryPairs ==
    IsPredictionsRequest(encReq) =>
        LET own == << Pair("station", encReq.station),
                      Pair("datum", DatumToken(encReq.datum)),
                      Pair("time_zone", TimezoneToken(encReq.time_zone)),
                      Pair("interval", IntervalToken(encReq.interval)),
                      Pair("units", UnitsToken(encReq.units)),
                      Pair("begin_date", Join(Yyyymmdd(encReq.date_range.begin_date))),
                      Pair("end_date", Join(Yyyymmdd(encReq.date_range.end_date))) >>
        IN  /\ encPc = "builder" => encOut = <<>>
            /\ encPc = "params" =>
                  /\ encOut = own
                  /\ Keys(encOut) = <<"station", "datum", "time_zone", "interval",
                                      "units", "begin_date", "end_date">>
            /\ encPc = "built" =>
                  /\ encOut = own \o << Pair("product", ProductName(encReq)),
                                        Pair("format", "json") >>
                  /\ Keys(encOut) = <<"station", "datum", "time_zone", "interval",
                                      "units", "begin_date", "end_date",
                                      "product", "format">>
            /\ encPc \in {"builder", "params", "built"}

\* the test's request, encoded: the pairs of the literal of the spec's section 6
C4_Witness ==
    /\ encPc = "built"
    /\ encReq = TestRequest
    /\ encOut = << <<"station", "1234567">>, <<"datum", "MLLW">>,
                   <<"time_zone", "lst_ldt">>, <<"interval", "hilo">>,
                   <<"units", "english">>, <<"begin_date", "20260101">>,
                   <<"end_date", "20260131">>, <<"product", ProductName(TestRequest)>>,
                   <<"format", "json">> >>

DatumTable == {"MHHW", "MHW", "MTL", "MSL", "MLW", "MLLW", "CRD", "IGLD", "LWD",
               "NAVD", "STND"}
TimezoneTable == {"gmt", "lst", "lst_ldt"}
IntervalTable == {"h", "hilo", "1", "5", "6", "10", "15", "30", "60"}
UnitsTable == {"metric", "english"}

\* C5: the token each enumeration member of a request is encoded to is a token
\* of the fixed table, and no other variant of the same enumeration encodes to
\* that token (total and injective); HighLow is "hilo", LST_LDT is "lst_ldt",
\* English is "english".
C5_TokensTotalInjective ==
    (IsPredictionsRequest(encReq) /\ encPc # "builder") =>
        /\ encOut[2][2] \in DatumTable
        /\ encOut[3][2] \in TimezoneTable
        /\ encOut[4][2] \in IntervalTable
        /\ encOut[5][2] \in UnitsTable
        /\ \A d \in Datum \ {encReq.datum} : DatumToken(d) # encOut[2][2]
        /\ \A z \in Timezone \ {encReq.time_zone} : TimezoneToken(z) # encOut[3][2]
        /\ \A i \in Interval \ {encReq.interval} : IntervalToken(i) # encOut[4][2]
        /\ \A u \in Units \ {encReq.units} : UnitsToken(u) # encOut[5][2]
        /\ encReq.interval = "Interval::HighLow" => encOut[4][2] = "hilo"
        /\ encReq.time_zone = "Timezone::LST_LDT" => encOut[3][2] = "lst_ldt"
        /\ encReq.units = "Units::English" => encOut[5][2] = "english"

\* an hourly request encoded: its token "h" is the one a sixty-minute request
\* must not share
C5_Witness ==
    /\ encPc = "built"
    /\ IsPredictionsRequest(encReq)
    /\ encReq.interval = "Interval::Hourly"
    /\ encReq.datum = "Datum::STND"
    /\ encOut[4][2] = "h"
    /\ encOut[2][2] = "STND"

EightDigits(tok) == Len(tok) = 8 /\ \A i \in 1..Len(tok) : IsDigit(tok[i])

\* C6: for every NaiveDate given as begin_date or end_date, years below 1000
\* and above 9999 included, the encoded token is exactly 8 decimal digits
\* (zero-padded YYYYMMDD, no separator, no sign) and re-parsing it recovers the
\* date.
C6_EightDigitRoundTrip ==
    (IsPredictionsRequest(encReq) /\ encPc # "builder") =>
        \A side \in {"begin_date", "end_date"} :
            LET date == encReq.date_range[side]
                tok == Yyyymmdd(date)
                at == IF side = "begin_date" THEN 6 ELSE 7
            IN  /\ encOut[at] = Pair(side, Join(tok))
                /\ EightDigits(tok)
                /\ ParseYyyymmdd(tok).ok
                /\ ParseYyyymmdd(tok).date = date

(***************************************************************************)
(* JSON bodies.  A member value is [kind, s]: kind is "absent" (no such     *)
(* member), "null", "string" (s: its characters) or "number" (s: the        *)
(* characters of the literal).  A body is a JSON object seen through the    *)
(* members the decoders read, or text that is not JSON at all.              *)
(***************************************************************************)
JAbsent == [kind |-> "absent", s |-> <<>>]
JNull == [kind |-> "null", s |-> <<>>]
JString(chars) == [kind |-> "string", s |-> chars]
JNumber(chars) == [kind |-> "number", s |-> chars]

\* one element of the "predictions" array: {"t": .., "v": .., "type": ..}
Record(t, v, type) == [t |-> t, v |-> v, type |-> type]

NoPredictions == [kind |-> "absent", items |-> <<>>]
PredictionsArray(items) == [kind |-> "array", items |-> items]

NoError == [kind |-> "absent", message |-> [kind |-> "absent", text |-> ""]]
\* {"error": {"message": m}}
ErrorEnvelope(m) == [kind |-> "object", message |-> [kind |-> "string", text |-> m]]
\* {"error": {}}: an "error" member with no message
ErrorNoMessage == [kind |-> "object", message |-> [kind |-> "absent", text |-> ""]]

JsonObject(p, e, v) == [kind |-> "object", predictions |-> p, error |-> e, value |-> v]
\* bytes that are not JSON (an HTML error page, an empty body)
NotJson == [kind |-> "invalid", predictions |-> NoPredictions, error |-> NoError,
            value |-> JAbsent]

(***************************************************************************)
(* Field decoders (products/mod.rs).                                       *)
(***************************************************************************)
\* how many of s[i], s[i+1], ... are decimal digits before the first that is not
CountDigits(s, i) ==
    CHOOSE n \in 0..(Len(s) + 1 - i) :
        /\ \A k \in i..(i + n - 1) : IsDigit(s[k])
        /\ (i + n > Len(s) \/ ~IsDigit(s[i + n]))

\* the characters of s from i, n of them
Slice(s, i, n) == [k \in 1..n |-> s[i + k - 1]]

RECURSIVE NumberOf(_)
\* the number a run of decimal digits denotes
NumberOf(ds) ==
    IF ds = <<>> THEN 0
    ELSE 10 * NumberOf(SubSeq(ds, 1, Len(ds) - 1)) + DigitVal(ds[Len(ds)])

\* how many white-space characters s has from i on before the first other one
CountSpaces(s, i) ==
    CHOOSE n \in 0..(Len(s) + 1 - i) :
        /\ \A k \in i..(i + n - 1) : s[k] = " "
        /\ (i + n > Len(s) \/ s[i + n] # " ")

RECURSIVE Normalize(_, _)
\* a decimal mantissa * 10^exp with no trailing zero in the mantissa
Normalize(mant, exp) ==
    IF mant = 0 THEN [mant |-> 0, exp |-> 0]
    ELSE IF mant % 10 = 0 THEN Normalize(mant \div 10, exp + 1)
    ELSE [mant |-> mant, exp |-> exp]

F32(class, neg, mant, exp) ==
    [class |-> class, neg |-> neg, mant |-> Normalize(mant, exp).mant,
     exp |-> Normalize(mant, exp).exp]

F32Failed == [ok |-> FALSE, val |-> F32("nan", FALSE, 0, 0)]

LowerChar(ch) ==
    CASE ch = "I" -> "i" [] ch = "N" -> "n" [] ch = "F" -> "f" [] ch = "A" -> "a"
      [] ch = "T" -> "t" [] ch = "Y" -> "y" [] OTHER -> ch

Min(a, b) == IF a < b THEN a ELSE b

\* the exponent read: its digits are the n characters of s from `from`
ExponentOf(s, negative, from, n) ==
    [ok |-> n > 0,
     val |-> IF negative THEN 0 - NumberOf(Slice(s, from, n))
             ELSE NumberOf(Slice(s, from, n)),
     next |-> from + n]

\* an optional exponent from s[i] on: "e" or "E", an optional sign, digits
ScanExponent(s, i) ==
    IF ~(i <= Len(s) /\ s[i] \in {"e", "E"}) THEN [ok |-> TRUE, val |-> 0, next |-> i]
    ELSE IF i + 1 <= Len(s) /\ s[i + 1] \in {"+", "-"}
    THEN ExponentOf(s, s[i + 1] = "-", i + 2, CountDigits(s, i + 2))
    ELSE ExponentOf(s, FALSE, i + 1, CountDigits(s, i + 1))

\* the decimal read: n1 digits from s[i], and n2 more after a "." if hasDot
DecimalOf(s, i, n1, hasDot, n2) ==
    [digits |-> n1 + n2,
     scale |-> n2,
     mant |-> NumberOf(Slice(s, i, n1)
                       \o (IF hasDot THEN Slice(s, i + n1 + 1, n2) ELSE <<>>)),
     next |-> IF hasDot THEN i + n1 + 1 + n2 ELSE i + n1]

\* the digits after the integer part of n1 digits
ScanFraction(s, i, n1) ==
    IF i + n1 <= Len(s) /\ s[i + n1] = "."
    THEN DecimalOf(s, i, n1, TRUE, CountDigits(s, i + n1 + 1))
    ELSE DecimalOf(s, i, n1, FALSE, 0)

\* the digits of a decimal from s[i] on, around an optional "."
ScanDecimal(s, i) == ScanFraction(s, i, CountDigits(s, i))

\* the number a decimal and its exponent denote, if they take the whole text
FiniteOf(s, neg, dec, ex) ==
    IF dec.digits > 0 /\ ex.ok /\ ex.next = Len(s) + 1
    THEN [ok |-> TRUE, val |-> F32("finite", neg, dec.mant, ex.val - dec.scale)]
    ELSE F32Failed

\* the text after the sign, in lower case where a special value has letters
Unsigned(s, p0) == [k \in 1..(Len(s) + 1 - p0) |-> LowerChar(s[p0 + k - 1])]

ParseUnsigned(s, neg, p0, rest, dec) ==
    IF rest \in {<<"i", "n", "f">>, <<"i", "n", "f", "i", "n", "i", "t", "y">>}
    THEN [ok |-> TRUE, val |-> F32("inf", neg, 0, 0)]
    ELSE IF rest = <<"n", "a", "n">>
    THEN [ok |-> TRUE, val |-> F32("nan", neg, 0, 0)]
    ELSE FiniteOf(s, neg, dec, ScanExponent(s, dec.next))

ParseSigned(s, neg, p0) ==
    ParseUnsigned(s, neg, p0, Unsigned(s, p0), ScanDecimal(s, p0))

\* str::parse::<f32>: an optional sign, then "inf", "infinity" or "nan" in any
\* case, or decimal digits with an optional "." and an optional exponent, at
\* least one digit in all, nothing before or after.  The value is kept as the
\* exact decimal the text denotes.
ParseF32(s) ==
    IF s = <<>> THEN F32Failed
    ELSE IF s[1] \in {"+", "-"} THEN ParseSigned(s, s[1] = "-", 2)
    ELSE ParseSigned(s, FALSE, 1)

\* de_string_to_f32: the member must be a JSON string, and the string a number
de_string_to_f32(jv) ==
    IF jv.kind # "string" THEN F32Failed ELSE ParseF32(jv.s)

NaiveDateTime(y, mo, d, h, mi, sec) ==
    [year |-> y, month |-> mo, day |-> d, hour |-> h, minute |-> mi, second |-> sec]

DateTimeFailed == [ok |-> FALSE, val |-> NaiveDateTime(0, 0, 0, 0, 0, 0)]

\* the n digits of s from `from`, as a number
NumberAt(s, from, n) ==
    [ok |-> n > 0, val |-> NumberOf(Slice(s, from, n)), next |-> from + n]

\* 1 to `width` digits from s[from] on
TakeDigits(s, from, width) == NumberAt(s, from, Min(CountDigits(s, from), width))

\* a numeric item of a chrono format read from s[i] on: white space is
\* skipped, then 1 to `width` digits are taken
TakeNumber(s, i, width) == TakeDigits(s, i + CountSpaces(s, i), width)

Negated(num) == [ok |-> num.ok, val |-> 0 - num.val, next |-> num.next]

\* "%Y" from s[from] on: 1 to 4 digits, or a sign and any number of digits
TakeSignedYear(s, from) ==
    IF from <= Len(s) /\ s[from] = "-"
    THEN Negated(NumberAt(s, from + 1, CountDigits(s, from + 1)))
    ELSE IF from <= Len(s) /\ s[from] = "+"
    THEN NumberAt(s, from + 1, CountDigits(s, from + 1))
    ELSE TakeDigits(s, from, 4)

TakeYear(s, i) == TakeSignedYear(s, i + CountSpaces(s, i))

\* a literal of the format: exactly that character
IsLiteral(s, i, ch) == i <= Len(s) /\ s[i] = ch

\* after "%M": the end of the text, and the fields as a date and a time of day
WithMinute(s, year, month, day, hour, mi) ==
    IF /\ mi.ok
       /\ mi.next = Len(s) + 1
       /\ month \in 1..12 /\ day \in 1..DaysInMonth(year, month)
       /\ hour \in 0..23 /\ mi.val \in 0..59
    THEN [ok |-> TRUE, val |-> NaiveDateTime(year, month, day, hour, mi.val, 0)]
    ELSE DateTimeFailed

\* after "%H": ":" and "%M"
WithHour(s, year, month, day, h) ==
    IF h.ok /\ IsLiteral(s, h.next, ":")
    THEN WithMinute(s, year, month, day, h.val, TakeNumber(s, h.next + 1, 2))
    ELSE DateTimeFailed

\* after "%d": the format's space (any run of white space) and "%H"
WithDay(s, year, month, d) ==
    IF d.ok THEN WithHour(s, year, month, d.val, TakeNumber(s, d.next, 2))
    ELSE DateTimeFailed

\* after "%m": "-" and "%d"
WithMonth(s, year, mo) ==
    IF mo.ok /\ IsLiteral(s, mo.next, "-")
    THEN WithDay(s, year, mo.val, TakeNumber(s, mo.next + 1, 2))
    ELSE DateTimeFailed

\* after "%Y": "-" and "%m"
WithYear(s, y) ==
    IF y.ok /\ IsLiteral(s, y.next, "-")
    THEN WithMonth(s, y.val, TakeNumber(s, y.next + 1, 2))
    ELSE DateTimeFailed

\* NaiveDateTime::parse_from_str(s, "%Y-%m-%d %H:%M").  chrono reads each
\* numeric item after skipping white space, as 1 to `width` digits (the year
\* with a sign: any number of digits), each literal exactly, the format's space
\* as any run of white space, and refuses text left over; the fields must then
\* name a date and a time of day, the seconds being 0.
ParseDateTime(s) == WithYear(s, TakeYear(s, 1))

\* de_string_to_native_datetime: a JSON string in the compact format
de_string_to_native_datetime(jv) ==
    IF jv.kind # "string" THEN DateTimeFailed ELSE ParseDateTime(jv.s)

(***************************************************************************)
(* Response types (products/predictions.rs, and the test's                 *)
(* MockProductResponse of lib.rs).                                         *)
(***************************************************************************)
TideTypeFailed == [ok |-> FALSE, val |-> "None"]

\* a bug that would make "type" a required member
DecodeTideTypeRequired(jv) ==
    IF jv.kind # "string" THEN TideTypeFailed
    ELSE CASE jv.s = <<"H">>      -> [ok |-> TRUE, val |-> "Some(TideType::High)"]
           [] jv.s = <<"L">>      -> [ok |-> TRUE, val |-> "Some(TideType::Low)"]
           [] jv.s = <<"H", "H">> -> [ok |-> TRUE, val |-> "Some(TideType::HigherHigh)"]
           [] jv.s = <<"L", "L">> -> [ok |-> TRUE, val |-> "Some(TideType::LowerLow)"]
           [] OTHER               -> TideTypeFailed

\* Option<TideType>: an absent or null member is None; a string must be one of
\* the four renamed variants
DecodeTideType(jv) ==
    IF jv.kind \in {"absent", "null"} THEN [ok |-> TRUE, val |-> "None"]
    ELSE IF jv.kind # "string" THEN TideTypeFailed
    ELSE CASE jv.s = <<"H">>      -> [ok |-> TRUE, val |-> "Some(TideType::High)"]
           [] jv.s = <<"L">>      -> [ok |-> TRUE, val |-> "Some(TideType::Low)"]
           [] jv.s = <<"H", "H">> -> [ok |-> TRUE, val |-> "Some(TideType::HigherHigh)"]
           [] jv.s = <<"L", "L">> -> [ok |-> TRUE, val |-> "Some(TideType::LowerLow)"]
           [] OTHER               -> TideTypeFailed

Prediction(dt, h, tt) == [datetime |-> dt, height |-> h, tide_type |-> tt]

PredictionFailed ==
    [ok |-> FALSE, val |-> Prediction(DateTimeFailed.val, F32Failed.val, "None")]

\* the record of three decoded members, if all three decoded
PredictionOf(dt, h, tt) ==
    IF dt.ok /\ h.ok /\ tt.ok
    THEN [ok |-> TRUE, val |-> Prediction(dt.val, h.val, tt.val)]
    ELSE PredictionFailed

\* Prediction: "t" and "v" through their decoders, "type" optional; any member
\* that fails fails the record
DecodePrediction(rec) ==
    PredictionOf(de_string_to_native_datetime(rec.t), de_string_to_f32(rec.v),
                 DecodeTideType(rec.type))

\* a bug that would drop the records that fail and keep the others
PushSkipping(first, rest) ==
    IF first.ok THEN [ok |-> rest.ok, val |-> <<first.val>> \o rest.val] ELSE rest

\* one more element of a Vec: a failure of the element, or of those after it,
\* fails the whole
Push(first, rest) ==
    IF first.ok /\ rest.ok THEN [ok |-> TRUE, val |-> <<first.val>> \o rest.val]
    ELSE [ok |-> FALSE, val |-> <<>>]

RECURSIVE DecodeVec(_)
\* Vec<Prediction>: the elements of the array in order
DecodeVec(items) ==
    IF items = <<>> THEN [ok |-> TRUE, val |-> <<>>]
    ELSE Push(DecodePrediction(Head(items)), DecodeVec(Tail(items)))

NoData == [ty |-> "none"]
PredictionsResponse(ps) == [ty |-> "PredictionsResponse", predictions |-> ps]
MockProductResponse(n) == [ty |-> "MockProductResponse", value |-> n]

PredictionsResponseOf(kind, vec) ==
    IF kind = "array" /\ vec.ok THEN [ok |-> TRUE, val |-> PredictionsResponse(vec.val)]
    ELSE [ok |-> FALSE, val |-> NoData]

\* PredictionsResponse: a "predictions" member that is an array of records;
\* other members are ignored
DecodePredictionsResponse(body) ==
    PredictionsResponseOf(body.predictions.kind, DecodeVec(body.predictions.items))

\* whether the n digits of s from `from` are an integer of 32 bits: at most
\* 2147483647, or 2147483648 after a "-" (a JSON number has no leading zero)
FitsI32(s, neg, from, n) ==
    \/ n <= 9
    \/ /\ n = 10
       /\ \/ NumberOf(Slice(s, from, 9)) < 214748364
          \/ /\ NumberOf(Slice(s, from, 9)) = 214748364
             /\ DigitVal(s[from + 9]) <= (IF neg THEN 8 ELSE 7)

\* the integer of n digits of s after an optional "-", if it is all of s and
\* fits 32 bits (-2147483648 itself is beyond the model's integers)
I32Of(s, neg, from, n) ==
    IF /\ n > 0
       /\ from + n = Len(s) + 1
       /\ FitsI32(s, neg, from, n)
    THEN [ok |-> TRUE,
          val |-> MockProductResponse(IF neg THEN 0 - NumberOf(Slice(s, from, n))
                                      ELSE NumberOf(Slice(s, from, n)))]
    ELSE [ok |-> FALSE, val |-> NoData]

\* MockProductResponse { value: i32 }: a "value" member that is an integer
\* literal
DecodeMockProductResponse(body) ==
    IF body.value.kind # "number" THEN [ok |-> FALSE, val |-> NoData]
    ELSE IF body.value.s # <<>> /\ body.value.s[1] = "-"
    THEN I32Of(body.value.s, TRUE, 2, CountDigits(body.value.s, 2))
    ELSE I32Of(body.value.s, FALSE, 1, CountDigits(body.value.s, 1))

\* T::deserialize for T = P::Response
DecodeSuccess(ty, body) ==
    IF ty = PredictionsResponseType
    THEN DecodePredictionsResponse(body)
    ELSE DecodeMockProductResponse(body)

\* ErrorWrapper { error: ApiError { message: String } }
DecodeErrorWrapper(body) ==
    IF body.error.kind = "object" /\ body.error.message.kind = "string"
    THEN [ok |-> TRUE, message |-> body.error.message.text]
    ELSE [ok |-> FALSE, message |-> ""]

Success(data) == [tag |-> "Success", data |-> data, message |-> ""]
Failure(message) == [tag |-> "Failure", data |-> NoData, message |-> message]
NoVariant == [tag |-> "NoVariant", data |-> NoData, message |-> ""]

\* a bug that would try the error envelope before the success shape
UntaggedFailureFirst(kind, success, failure) ==
    IF kind # "object" THEN NoVariant
    ELSE IF failure.ok THEN Failure(failure.message)
    ELSE IF success.ok THEN Success(success.val)
    ELSE NoVariant

\* #[serde(untagged)] enum NoaaResponse<T> { Success(T), Failure(ErrorWrapper) }:
\* the variants are tried in declaration order on the parsed JSON; text that
\* is not JSON, or JSON that matches neither, is a decode error
Untagged(kind, success, failure) ==
    IF kind # "object" THEN NoVariant
    ELSE IF success.ok THEN Success(success.val)
    ELSE IF failure.ok THEN Failure(failure.message)
    ELSE NoVariant

\* serde_json::from_slice::<NoaaResponse<T>>
DecodeNoaaResponse(ty, body) ==
    Untagged(body.kind, DecodeSuccess(ty, body), DecodeErrorWrapper(body))

(***************************************************************************)
(* NoaaTideError and the results of fetch.  An HttpError wraps the         *)
(* reqwest::Error it was made from; `source` is that error's kind.         *)
(***************************************************************************)
Ok(data) == [variant |-> "Ok", data |-> data, message |-> "", source |-> "none"]
HttpError(kind) ==
    [variant |-> "HttpError", data |-> NoData, message |-> "", source |-> kind]
ApiError(m) ==
    [variant |-> "ApiError", data |-> NoData, message |-> m, source |-> "none"]
Unknown == [variant |-> "Unknown", data |-> NoData, message |-> "", source |-> "none"]
NoResult == [variant |-> "none", data |-> NoData, message |-> "", source |-> "none"]

\* a bug that would report the remote error without its message
MatchResponseDroppingMessage(response) ==
    CASE response.tag = "Success" -> Ok(response.data)
      [] response.tag = "Failure" -> Unknown
      [] OTHER                    -> HttpError("decode")

\* the match on the decoded response; a decode error has left before it,
\* through `?`, as the HttpError made from reqwest's error
MatchResponse(response) ==
    CASE response.tag = "Success" -> Ok(response.data)
      [] response.tag = "Failure" -> ApiError(response.message)
      [] OTHER                    -> HttpError("decode")

\* .json::<NoaaResponse<P::Response>>().await? and the match on its value
FetchResult(ty, body) == MatchResponse(DecodeNoaaResponse(ty, body))

(***************************************************************************)
(* The bodies and requests the fetch state machine is run on.              *)
(***************************************************************************)
T_1234 == JString(<<"2", "0", "2", "6", "-", "0", "1", "-", "0", "1", " ", "1", "2", ":", "3", "4">>)
T_1840 == JString(<<"2", "0", "2", "6", "-", "0", "1", "-", "0", "1", " ", "1", "8", ":", "4", "0">>)
\* ISO "T" separator: not the compact format
T_Iso == JString(<<"2", "0", "2", "6", "-", "0", "1", "-", "0", "1", "T", "1", "2", ":", "3", "4">>)
\* unpadded fields: not the exact form, yet read by chrono
T_Unpadded == JString(<<"2", "0", "2", "6", "-", "1", "-", "1", " ", "1", ":", "0", "2">>)
V_3_5 == JString(<<"3", ".", "5">>)
V_Neg == JString(<<"-", "0", ".", "2", "5">>)
V_Abc == JString(<<"a", "b", "c">>)
Type_H == JString(<<"H">>)
Type_L == JString(<<"L">>)
Type_HH == JString(<<"H", "H">>)
Type_LL == JString(<<"L", "L">>)
Type_X == JString(<<"X">>)

GoodRecords ==
    { Record(T_1234, V_3_5, Type_H), Record(T_1840, V_Neg, Type_L),
      Record(T_1840, V_3_5, Type_HH), Record(T_1234, V_Neg, Type_LL),
      Record(T_1840, V_Neg, JAbsent), Record(T_Unpadded, V_3_5, JNull) }

BadRecords ==
    { Record(T_1234, V_Abc, Type_H), Record(T_Iso, V_3_5, Type_H),
      Record(T_1234, V_3_5, Type_X), Record(T_1234, JNumber(V_3_5.s), Type_H),
      Record(T_1234, JAbsent, JAbsent) }

Records == GoodRecords \cup BadRecords

RECURSIVE SeqsUpTo(_, _)
\* the sequences over S of length at most n
SeqsUpTo(S, n) ==
    IF n = 0 THEN {<<>>}
    ELSE LET shorter == SeqsUpTo(S, n - 1)
         IN  shorter \cup {Append(q, x) : q \in {r \in shorter : Len(r) = n - 1}, x \in S}

Messages == {"No data was found.", "Wrong Station ID"}

ErrorMembers == {NoError, ErrorNoMessage} \cup {ErrorEnvelope(m) : m \in Messages}

ValueMembers == {JNumber(<<"1", "0">>), JString(<<"1", "0">>), JNumber(<<"3", ".", "5">>)}

\* every body of the decoding runs
Bodies ==
    {JsonObject(PredictionsArray(items), e, JAbsent) :
        items \in SeqsUpTo(Records, MaxPredictions), e \in ErrorMembers}
    \cup {JsonObject([kind |-> "null", items |-> <<>>], e, JAbsent) : e \in ErrorMembers}
    \cup {JsonObject(NoPredictions, e, v) : e \in ErrorMembers, v \in ValueMembers \cup {JAbsent}}
    \cup {NotJson}

\* one body of each shape, for the concurrent runs
CoreBodies ==
    { JsonObject(PredictionsArray(<<Record(T_1234, V_3_5, Type_H)>>), NoError, JAbsent),
      JsonObject(PredictionsArray(<<Record(T_1234, V_Abc, Type_H)>>), NoError, JAbsent),
      JsonObject(NoPredictions, ErrorEnvelope("No data was found."), JAbsent),
      JsonObject(NoPredictions, NoError, JNumber(<<"1", "0">>)),
      NotJson }

Statuses == {200, 400}

Requests ==
    { TestRequest,
      PredictionsRequest("9414290", DateRange(Jan01, Jan01), "Datum::MSL",
                         "Timezone::GMT", "Interval::Hourly", "Units::Metric"),
      MockProductRequest("1234567") }

CoreRequests == {TestRequest, MockProductRequest("1234567")}

(***************************************************************************)
(* NoaaTideClient::fetch as a state machine.  One invocation is a call id; *)
(* it issues its GET, awaits the response (send().await?), awaits the body *)
(* (json().await?) and returns.  The server and the network are the        *)
(* environment: they answer a request with any status and body, in any     *)
(* order, or fail.                                                         *)
(***************************************************************************)
NoRequest == [ty |-> "none"]

Idle == [pc |-> "idle", req |-> NoRequest, gets |-> 0, returns |-> 0, result |-> NoResult]

Get(c, r) == [conn |-> c, url |-> client.base_url, query |-> FetchQuery(r)]

\* a bug that would hand a call whichever response arrived first
ResponseOfAny(c) == CHOOSE m \in responses : TRUE

\* the response a call awaits: the one on its own connection
ResponseOf(c) == CHOOSE m \in responses : m.conn = c

\* fetch is entered: the query is built and the GET sent
Fetch(c, r) ==
    /\ call[c].pc = "idle"
    /\ call' = [call EXCEPT ![c] = [@ EXCEPT !.pc = "sending", !.req = r,
                                              !.gets = @ + 1]]
    /\ requests' = requests \cup {Get(c, r)}
    /\ UNCHANGED <<client, responses, served, encVars>>

\* environment: the server answers the request of call c
ServerAnswers(c, status, body) ==
    /\ \E m \in requests : m.conn = c
    /\ requests' = {m \in requests : m.conn # c}
    /\ responses' = responses \cup {[conn |-> c, status |-> status, body |-> body]}
    /\ served' = [served EXCEPT ![c] = body]
    /\ UNCHANGED <<client, call, encVars>>

\* a bug that would send the request again when the transport fails
SendFailsRetrying(c) ==
    /\ call[c].pc = "sending"
    /\ call[c].gets < 3
    /\ call' = [call EXCEPT ![c] = [@ EXCEPT !.gets = @ + 1]]
    /\ requests' = requests \cup {Get(c, call[c].req)}
    /\ UNCHANGED <<client, responses, served, encVars>>

\* send().await? fails (DNS, connection, time-out): fetch returns the error
SendFails(c) ==
    /\ call[c].pc = "sending"
    /\ call' = [call EXCEPT ![c] = [@ EXCEPT !.pc = "done", !.returns = @ + 1,
                                              !.result = HttpError("request")]]
    /\ requests' = {m \in requests : m.conn # c}
    /\ responses' = {m \in responses : m.conn # c}
    /\ UNCHANGED <<client, served, encVars>>

\* send().await? yields the response; its status is not looked at
ResponseArrives(c) ==
    /\ call[c].pc = "sending"
    /\ \E m \in responses : m.conn = c
    /\ call' = [call EXCEPT ![c] = [@ EXCEPT !.pc = "reading"]]
    /\ UNCHANGED <<client, requests, responses, served, encVars>>

\* json().await? fails reading the body from the connection
BodyFails(c) ==
    /\ call[c].pc = "reading"
    /\ call' = [call EXCEPT ![c] = [@ EXCEPT !.pc = "done", !.returns = @ + 1,
                                              !.result = HttpError("body")]]
    /\ responses' = {m \in responses : m.conn # c}
    /\ UNCHANGED <<client, requests, served, encVars>>

\* json().await? has the whole body: it is decoded and fetch returns
BodyArrives(c) ==
    /\ call[c].pc = "reading"
    /\ call' = [call EXCEPT ![c] =
                   [@ EXCEPT !.pc = "done", !.returns = @ + 1,
                             !.result = FetchResult(ResponseType(call[c].req),
                                                    ResponseOf(c).body)]]
    /\ responses' = responses \ {ResponseOf(c)}
    /\ UNCHANGED <<client, requests, served, encVars>>

FetchInit(ids) ==
    /\ client = NewClient
    /\ call = [c \in ids |-> Idle]
    /\ requests = {}
    /\ responses = {}
    /\ served = [c \in ids |-> NotJson]
    /\ encReq = NoRequest
    /\ encOut = <<>>
    /\ encPc = "unused"

\* concurrent calls on one client
Init == FetchInit(1..NCalls)

Next ==
    \/ \E c \in DOMAIN call, r \in CoreRequests : Fetch(c, r)
    \/ \E c \in DOMAIN call, st \in Statuses, b \in CoreBodies : ServerAnswers(c, st, b)
    \/ \E c \in DOMAIN call : SendFails(c)
    \/ \E c \in DOMAIN call : ResponseArrives(c)
    \/ \E c \in DOMAIN call : BodyFails(c)
    \/ \E c \in DOMAIN call : BodyArrives(c)

Spec == Init /\ [][Next]_vars

\* one call, every body
DecodeInit == FetchInit({1})

DecodeNext ==
    \/ \E c \in DOMAIN call, r \in Requests : Fetch(c, r)
    \/ \E c \in DOMAIN call, st \in Statuses, b \in Bodies : ServerAnswers(c, st, b)
    \/ \E c \in DOMAIN call : SendFails(c)
    \/ \E c \in DOMAIN call : ResponseArrives(c)
    \/ \E c \in DOMAIN call : BodyFails(c)
    \/ \E c \in DOMAIN call : BodyArrives(c)

SpecDecode == DecodeInit /\ [][DecodeNext]_vars

(***************************************************************************)
(* Claims on fetch.                                                        *)
(***************************************************************************)
Returned(c) == call[c].pc = "done"

\* fetch returned after the transport delivered the whole body
Decoded(c) == Returned(c) /\ call[c].result.source \notin {"request", "body"}

ExpectsPredictions(c) == ResponseType(call[c].req) = PredictionsResponseType

\* the body matches the success shape the call asked for
MatchesSuccess(c) ==
    served[c].kind = "object" /\ DecodeSuccess(ResponseType(call[c].req), served[c]).ok

\* the body is {"error": {"message": <string>}}, whatever else it holds
MatchesEnvelope(c) ==
    /\ served[c].kind = "object"
    /\ served[c].error.kind = "object"
    /\ served[c].error.message.kind = "string"

\* C1: when the delivered body does not decode as the requested success shape
\* but does decode as the error envelope {"error": {"message": m}}, fetch
\* returns Err(ApiError(m)) with m unchanged: not a decode failure, not Ok.
C1_ApiErrorCarriesMessage ==
    \A c \in DOMAIN call :
        (Decoded(c) /\ ~MatchesSuccess(c) /\ MatchesEnvelope(c)) =>
            /\ call[c].result.variant = "ApiError"
            /\ call[c].result.message = served[c].error.message.text
            /\ call[c].result.data = NoData

\* a predictions call answered {"error": {"message": "No data was found."}}
C1_Witness ==
    \E c \in DOMAIN call :
        /\ Decoded(c)
        /\ ExpectsPredictions(c)
        /\ served[c] = JsonObject(NoPredictions, ErrorEnvelope("No data was found."),
                                  JAbsent)
        /\ call[c].result = ApiError("No data was found.")

\* C2: every call of fetch issues exactly one GET and returns exactly one
\* result; whatever the outcome, no second request is sent.
C2_OneRoundTrip ==
    \A c \in DOMAIN call :
        /\ call[c].gets <= 1
        /\ call[c].returns <= 1
        /\ call[c].pc = "idle" => (call[c].gets = 0 /\ call[c].returns = 0)
        /\ call[c].pc \in {"sending", "reading"} =>
              (call[c].gets = 1 /\ call[c].returns = 0)
        /\ Returned(c) =>
              /\ call[c].gets = 1
              /\ call[c].returns = 1
              /\ call[c].result.variant \in {"Ok", "HttpError", "ApiError"}
        /\ Cardinality({m \in requests : m.conn = c}) <= 1
        /\ (\E m \in requests : m.conn = c) => call[c].pc = "sending"

\* one call failed in the transport and one was answered with an API error:
\* both have returned, after one GET each
C2_Witness ==
    \E c, d \in DOMAIN call :
        /\ Returned(c) /\ call[c].result = HttpError("request") /\ call[c].gets = 1
        /\ Returned(d) /\ call[d].result.variant = "ApiError" /\ call[d].gets = 1

\* the variant fetch returns when the transport fails
TransportFailureVariant == HttpError("request").variant

\* C3: when the body decodes as neither the success shape nor the error
\* envelope, the error fetch returns is of a class of its own: not that of an
\* API-reported error and not that of a transport failure.
C3_DecodeFailureDistinct ==
    \A c \in DOMAIN call :
        (Decoded(c) /\ ~MatchesSuccess(c) /\ ~MatchesEnvelope(c)) =>
            /\ call[c].result.variant # "Ok"
            /\ call[c].result.variant # "ApiError"
            /\ call[c].result.variant # TransportFailureVariant

WellFormedRecords ==
    {Record(t, v, ty) : t \in {T_1234, T_1840}, v \in {V_3_5, V_Neg},
                        ty \in {Type_H, Type_L, Type_HH, Type_LL, JAbsent}}

\* what a well-formed record is to decode to
ExpectedPrediction(rec) ==
    Prediction(
        IF rec.t = T_1234 THEN NaiveDateTime(2026, 1, 1, 12, 34, 0)
        ELSE NaiveDateTime(2026, 1, 1, 18, 40, 0),
        IF rec.v = V_3_5
        THEN [class |-> "finite", neg |-> FALSE, mant |-> 35, exp |-> -1]
        ELSE [class |-> "finite", neg |-> TRUE, mant |-> 25, exp |-> -2],
        CASE rec.type = Type_H  -> "Some(TideType::High)"
          [] rec.type = Type_L  -> "Some(TideType::Low)"
          [] rec.type = Type_HH -> "Some(TideType::HigherHigh)"
          [] rec.type = Type_LL -> "Some(TideType::LowerLow)"
          [] rec.type = JAbsent -> "None")

\* C7: a success body {"predictions": [...]} decodes to one Prediction per
\* element, in the array's order, with datetime from "t", height from the
\* string "v", tide_type Some(High|Low|HigherHigh|LowerLow) for H|L|HH|LL, and
\* None, not a failure, for a record with no "type".
C7_PredictionsDecoded ==
    \A c \in DOMAIN call :
        (/\ Decoded(c)
         /\ ExpectsPredictions(c)
         /\ served[c].kind = "object"
         /\ served[c].predictions.kind = "array"
         /\ \A i \in 1..Len(served[c].predictions.items) :
                served[c].predictions.items[i] \in WellFormedRecords) =>
            /\ call[c].result.variant = "Ok"
            /\ call[c].result.data.ty = "PredictionsResponse"
            /\ Len(call[c].result.data.predictions) = Len(served[c].predictions.items)
            /\ \A i \in 1..Len(served[c].predictions.items) :
                   call[c].result.data.predictions[i]
                       = ExpectedPrediction(served[c].predictions.items[i])

\* a record with no "type" after one of type "H": two predictions, in order
C7_Witness ==
    \E c \in DOMAIN call :
        /\ Decoded(c)
        /\ served[c] = JsonObject(PredictionsArray(<<Record(T_1234, V_3_5, Type_H),
                                                     Record(T_1840, V_Neg, JAbsent)>>),
                                  NoError, JAbsent)
        /\ call[c].result.variant = "Ok"
        /\ call[c].result.data.predictions[1].tide_type = "Some(TideType::High)"
        /\ call[c].result.data.predictions[1].datetime
               = NaiveDateTime(2026, 1, 1, 12, 34, 0)
        /\ call[c].result.data.predictions[2].tide_type = "None"
        /\ call[c].result.data.predictions[2].height.neg

\* C8: fetch leaves the client as constructed, and what each of the concurrent
\* calls returns is determined by its own request and the body delivered on
\* its own round trip (or is its own transport failure), in whatever order the
\* responses arrive.
C8_IndependentCalls ==
    /\ client = NewClient
    /\ \A c \in DOMAIN call :
           Returned(c) =>
               \/ call[c].result \in {HttpError("request"), HttpError("body")}
               \/ call[c].result = FetchResult(ResponseType(call[c].req), served[c])
    /\ \A c, d \in DOMAIN call :
           (/\ Decoded(c) /\ Decoded(d)
            /\ call[c].req = call[d].req
            /\ served[c] = served[d]) => call[c].result = call[d].result

\* two calls of the same request on the shared client, answered differently:
\* one has its predictions, the other its API error
C8_Witness ==
    \E c, d \in DOMAIN call :
        /\ c # d
        /\ Decoded(c) /\ Decoded(d)
        /\ call[c].req = call[d].req
        /\ call[c].result.variant = "Ok"
        /\ call[d].result.variant = "ApiError"
        /\ client = NewClient

\* a member of the record is refused by its field decoder
FieldRejected(rec) ==
    \/ ~de_string_to_native_datetime(rec.t).ok
    \/ ~de_string_to_f32(rec.v).ok
    \/ ~DecodeTideType(rec.type).ok
    \/ rec.v = V_Abc
    \/ rec.t = T_Iso
    \/ rec.type = Type_X

C10_SuccessFirst ==
    \A c \in DOMAIN call :
        Decoded(c) =>
            /\ call[c].returns = 1
            /\ call[c].result.variant \in {"Ok", "ApiError", "HttpError"}
            /\ call[c].result.variant = "ApiError" => ~MatchesSuccess(c)
            /\ (MatchesSuccess(c) /\ MatchesEnvelope(c)) =>
                  /\ call[c].result.variant = "Ok"
                  /\ call[c].result.data
                         = DecodeSuccess(ResponseType(call[c].req), served[c]).val

\* a body with both a "predictions" and an "error" member, returned as Ok
C10_Witness ==
    \E c \in DOMAIN call :
        /\ Decoded(c)
        /\ ExpectsPredictions(c)
        /\ served[c] = JsonObject(PredictionsArray(<<Record(T_1234, V_3_5, Type_H)>>),
                                  ErrorEnvelope("No data was found."), JAbsent)
        /\ call[c].result.variant = "Ok"
        /\ Len(call[c].result.data.predictions) = 1

====
